---- MODULE Spec2Model ----
(***************************************************************************)
(* Othello / Reversi (src/reversi/othello.py): the board, the move         *)
(* legality scan, the candidate list, the move executor and the play loop  *)
(* of play_game, with the stream of input lines it reads.                  *)
(***************************************************************************)
EXTENDS Integers, Sequences, FiniteSets, TLC

\* ---------------------------------------------------------------- bounds
\* Number of accepted moves that may be typed after the recorded part of the
\* input stream has been consumed.
MaxMoves == 2

\* ------------------------------------------------------------- constants
SIZE == 8

\* class Color(enum.Enum); an empty cell holds Python's None.
BLACK == "B"
WHITE == "W"
None == "None"
Color == {BLACK, WHITE}

directions ==
  << <<-1, -1>>, <<-1, 0>>, <<-1, 1>>, <<0, -1>>,
     <<0, 1>>, <<1, -1>>, <<1, 0>>, <<1, 1>> >>

Index == 0 .. (SIZE - 1)

\* switch_user with the test turned round: the turn never changes.
switch_user_mut(turn) == IF turn # WHITE THEN BLACK ELSE WHITE

\* The expression  Color.BLACK if turn != Color.BLACK else Color.WHITE.
switch_user(turn) == IF turn # BLACK THEN BLACK ELSE WHITE

\* -------------------------------------------------------- Python strings
\* A str is a sequence of one-character strings; ord is the code table of
\* the characters that occur in the modelled input.
ord ==
  ("a" :> 97) @@ ("b" :> 98) @@ ("c" :> 99) @@ ("d" :> 100) @@ ("e" :> 101)
  @@ ("f" :> 102) @@ ("g" :> 103) @@ ("h" :> 104) @@ ("i" :> 105)
  @@ ("A" :> 65) @@ ("H" :> 72) @@ ("I" :> 73)
  @@ ("0" :> 48) @@ ("1" :> 49) @@ ("2" :> 50) @@ ("3" :> 51) @@ ("4" :> 52)
  @@ ("5" :> 53) @@ ("6" :> 54) @@ ("7" :> 55) @@ ("8" :> 56) @@ ("9" :> 57)
  @@ (" " :> 32) @@ ("\n" :> 10)

\* str.lower() on the characters of the table.
lower(s) ==
  [i \in 1 .. Len(s) |->
     IF ord[s[i]] >= 65 /\ ord[s[i]] <= 90
       THEN CHOOSE ch \in DOMAIN ord : ord[ch] = ord[s[i]] + 32
       ELSE s[i]]

isspace(ch) == ord[ch] \in {9, 10, 11, 12, 13, 28, 29, 30, 31, 32}

RECURSIVE lstrip(_)
lstrip(s) == IF s # <<>> /\ isspace(Head(s)) THEN lstrip(Tail(s)) ELSE s

RECURSIVE rstrip(_)
rstrip(s) ==
  IF s # <<>> /\ isspace(s[Len(s)]) THEN rstrip(SubSeq(s, 1, Len(s) - 1))
  ELSE s

\* str.strip()
strip(s) == rstrip(lstrip(s))

ERR_LENGTH == "Input must be length 2"
ERR_ROW == "Row out of bounds"
ERR_COL == "Col out of bounds"

\* parse_coordinate: the coordinate, or the CoordinateParseError it raises.
parse_coordinate(str) ==
  LET s == strip(lower(str)) IN
  IF Len(s) # 2 THEN [ok |-> FALSE, err |-> ERR_LENGTH]
  ELSE LET row == ord[s[2]] - ord["1"]
           col == ord[s[1]] - ord["a"]
       IN IF ~(0 <= row /\ row < SIZE) THEN [ok |-> FALSE, err |-> ERR_ROW]
          ELSE IF ~(0 <= col /\ col < SIZE) THEN [ok |-> FALSE, err |-> ERR_COL]
          ELSE [ok |-> TRUE, move |-> <<row, col>>]

\* ------------------------------------------------------- move legality
\* The while loop of is_valid_move for one direction, from (newx, newy) with
\* cnt cells already passed: TRUE when the loop returns True.
\* valid_scan without the test of cnt: a mover's cell right next to the
\* target already counts as a bookend.
RECURSIVE valid_scan_mut(_, _, _, _, _, _, _)
valid_scan_mut(newx, newy, dx, dy, cnt, turn, board) ==
  IF ~(0 <= newx /\ newx < SIZE /\ 0 <= newy /\ newy < SIZE) THEN FALSE
  ELSE IF board[newx][newy] = None THEN FALSE
  ELSE IF board[newx][newy] = turn THEN TRUE
  ELSE valid_scan_mut(newx + dx, newy + dy, dx, dy, cnt + 1, turn, board)

RECURSIVE valid_scan(_, _, _, _, _, _, _)
valid_scan(newx, newy, dx, dy, cnt, turn, board) ==
  IF ~(0 <= newx /\ newx < SIZE /\ 0 <= newy /\ newy < SIZE) THEN FALSE
  ELSE IF board[newx][newy] = None THEN FALSE
  ELSE IF cnt = 0
    THEN IF board[newx][newy] = turn THEN FALSE
         ELSE valid_scan(newx + dx, newy + dy, dx, dy, cnt + 1, turn, board)
    ELSE IF board[newx][newy] = turn THEN TRUE
         ELSE valid_scan(newx + dx, newy + dy, dx, dy, cnt + 1, turn, board)

\* is_valid_move without the scan of the directions: any empty cell passes.
is_valid_move_mut(row, col, turn, board) == board[row][col] = None

is_valid_move(row, col, turn, board) ==
  IF board[row][col] # None THEN FALSE
  ELSE \E d \in 1 .. Len(directions) :
         valid_scan(row + directions[d][1], col + directions[d][2],
                    directions[d][1], directions[d][2], 0, turn, board)

\* grid_cells with the two loops exchanged: column by column.
grid_cells_mut == [k \in 1 .. SIZE * SIZE |-> <<(k - 1) % SIZE, (k - 1) \div SIZE>>]

\* The cells of the grid in the order of the two nested range(SIZE) loops.
grid_cells == [k \in 1 .. SIZE * SIZE |-> <<(k - 1) \div SIZE, (k - 1) % SIZE>>]

\* next_steps without the call of is_valid_move: every empty cell is listed.
next_steps_mut(turn, board) ==
  LET valid(c) == board[c[1]][c[2]] = None
  IN SelectSeq(grid_cells, valid)

next_steps(turn, board) ==
  LET valid(c) == is_valid_move(c[1], c[2], turn, board)
  IN SelectSeq(grid_cells, valid)

\* -------------------------------------------------------- move executor
\* action_scan that gives up at the second opponent piece of a run: only
\* runs of one piece are found valid.
RECURSIVE action_scan_mut(_, _, _, _, _, _, _)
action_scan_mut(newx, newy, dx, dy, cnt, turn, board) ==
  IF ~(0 <= newx /\ newx < SIZE /\ 0 <= newy /\ newy < SIZE)
    THEN [valid |-> FALSE, cnt |-> cnt]
  ELSE IF board[newx][newy] = None THEN [valid |-> FALSE, cnt |-> cnt]
  ELSE IF cnt = 0
    THEN IF board[newx][newy] = turn THEN [valid |-> FALSE, cnt |-> cnt]
         ELSE action_scan_mut(newx + dx, newy + dy, dx, dy, cnt + 1, turn, board)
    ELSE IF board[newx][newy] = turn THEN [valid |-> TRUE, cnt |-> cnt]
         ELSE [valid |-> FALSE, cnt |-> cnt]

\* The while loop of take_action for one direction: the flag valid and the
\* counter cnt when the loop is left.
RECURSIVE action_scan(_, _, _, _, _, _, _)
action_scan(newx, newy, dx, dy, cnt, turn, board) ==
  IF ~(0 <= newx /\ newx < SIZE /\ 0 <= newy /\ newy < SIZE)
    THEN [valid |-> FALSE, cnt |-> cnt]
  ELSE IF board[newx][newy] = None THEN [valid |-> FALSE, cnt |-> cnt]
  ELSE IF cnt = 0
    THEN IF board[newx][newy] = turn THEN [valid |-> FALSE, cnt |-> cnt]
         ELSE action_scan(newx + dx, newy + dy, dx, dy, cnt + 1, turn, board)
    ELSE IF board[newx][newy] = turn THEN [valid |-> TRUE, cnt |-> cnt]
         ELSE action_scan(newx + dx, newy + dy, dx, dy, cnt + 1, turn, board)

\* flip_one that forgets to take the piece from the opponent's count.
flip_one_mut(i, row, col, dx, dy, turn, st) ==
  LET newx == row + dx * (i + 1)
      newy == col + dy * (i + 1)
  IN [board |-> [st.board EXCEPT ![newx][newy] = turn],
      b_cnt |-> IF turn = BLACK THEN st.b_cnt + 1 ELSE st.b_cnt,
      w_cnt |-> IF turn = BLACK THEN st.w_cnt ELSE st.w_cnt + 1,
      t_cnt |-> st.t_cnt]

\* One pass of the body of  for i in range(0, cnt): the cell is given to
\* turn and one piece moves from the opponent's count to the mover's.
flip_one(i, row, col, dx, dy, turn, st) ==
  LET newx == row + dx * (i + 1)
      newy == col + dy * (i + 1)
  IN [board |-> [st.board EXCEPT ![newx][newy] = turn],
      b_cnt |-> IF turn = BLACK THEN st.b_cnt + 1 ELSE st.b_cnt - 1,
      w_cnt |-> IF turn = BLACK THEN st.w_cnt - 1 ELSE st.w_cnt + 1,
      t_cnt |-> st.t_cnt]

\* flip_run that stops one cell short: for i in range(0, cnt - 1).
RECURSIVE flip_run_mut(_, _, _, _, _, _, _, _)
flip_run_mut(i, cnt, row, col, dx, dy, turn, st) ==
  IF i >= cnt - 1 THEN st
  ELSE flip_run_mut(i + 1, cnt, row, col, dx, dy, turn,
                    flip_one(i, row, col, dx, dy, turn, st))

\* for i in range(0, cnt), from index i on.
RECURSIVE flip_run(_, _, _, _, _, _, _, _)
flip_run(i, cnt, row, col, dx, dy, turn, st) ==
  IF i >= cnt THEN st
  ELSE flip_run(i + 1, cnt, row, col, dx, dy, turn,
                flip_one(i, row, col, dx, dy, turn, st))

\* flip_directions that leaves the loop after the first valid direction.
RECURSIVE flip_directions_mut(_, _, _, _, _)
flip_directions_mut(d, row, col, turn, st) ==
  IF d > Len(directions) THEN st
  ELSE LET dx == directions[d][1]
           dy == directions[d][2]
           scan == action_scan(row + dx, col + dy, dx, dy, 0, turn, st.board)
       IN IF scan.valid
            THEN flip_run(0, scan.cnt, row, col, dx, dy, turn, st)
            ELSE flip_directions_mut(d + 1, row, col, turn, st)

\* for direction in directions, from the d-th direction on; every scan reads
\* the board as the earlier directions left it.
RECURSIVE flip_directions(_, _, _, _, _)
flip_directions(d, row, col, turn, st) ==
  IF d > Len(directions) THEN st
  ELSE LET dx == directions[d][1]
           dy == directions[d][2]
           scan == action_scan(row + dx, col + dy, dx, dy, 0, turn, st.board)
       IN flip_directions(d + 1, row, col, turn,
            IF scan.valid
              THEN flip_run(0, scan.cnt, row, col, dx, dy, turn, st)
              ELSE st)

\* place_piece that forgets t_cnt += 1.
place_piece_mut(turn, board, b_cnt, w_cnt, t_cnt, move) ==
  [board |-> [board EXCEPT ![move[1]][move[2]] = turn],
   b_cnt |-> IF turn = BLACK THEN b_cnt + 1 ELSE b_cnt,
   w_cnt |-> IF turn = BLACK THEN w_cnt ELSE w_cnt + 1,
   t_cnt |-> t_cnt]

\* The placement: board[move[0]][move[1]] = turn and the three counters.
place_piece(turn, board, b_cnt, w_cnt, t_cnt, move) ==
  [board |-> [board EXCEPT ![move[1]][move[2]] = turn],
   b_cnt |-> IF turn = BLACK THEN b_cnt + 1 ELSE b_cnt,
   w_cnt |-> IF turn = BLACK THEN w_cnt ELSE w_cnt + 1,
   t_cnt |-> t_cnt + 1]

\* take_action without board[move[0]][move[1]] = turn: the counts are
\* raised and the runs are flipped, the cell of the move stays empty.
take_action_mut(row, col, turn, board, b_cnt, w_cnt, t_cnt, move) ==
  flip_directions(1, row, col, turn,
                  [place_piece(turn, board, b_cnt, w_cnt, t_cnt, move)
                     EXCEPT !.board = board])

\* take_action: the board after the call and the returned counts.
take_action(row, col, turn, board, b_cnt, w_cnt, t_cnt, move) ==
  flip_directions(1, row, col, turn,
                  place_piece(turn, board, b_cnt, w_cnt, t_cnt, move))

REASON_ONE_LOSE == "one lose"
REASON_FULL == "full the board"
REASON_NONE == ""

\* check_end_status that finds the board full one cell early.
check_end_status_mut(turn, b_cnt, w_cnt, t_cnt) ==
  IF b_cnt = 0 \/ w_cnt = 0 THEN [end |-> TRUE, reason |-> REASON_ONE_LOSE]
  ELSE IF t_cnt >= SIZE * SIZE - 1 THEN [end |-> TRUE, reason |-> REASON_FULL]
  ELSE [end |-> FALSE, reason |-> REASON_NONE]

\* check_end_status: the returned flag and the line it prints.
check_end_status(turn, b_cnt, w_cnt, t_cnt) ==
  IF b_cnt = 0 \/ w_cnt = 0 THEN [end |-> TRUE, reason |-> REASON_ONE_LOSE]
  ELSE IF t_cnt = SIZE * SIZE THEN [end |-> TRUE, reason |-> REASON_FULL]
  ELSE [end |-> FALSE, reason |-> REASON_NONE]

\* ------------------------------------------------------ the input stream
\* One line of input: a column letter, a row digit and the line end.
Ln(c, r) == <<c, r, "\n">>

\* The lines that may be typed once the recorded part of the stream is used
\* up: every coordinate of the grid, coordinates one step outside it in each
\* direction, upper case, padding and wrong lengths.
Lines ==
  {Ln(c, r) : c \in {"a", "b", "c", "d", "e", "f", "g", "h", "i", "A"},
              r \in {"0", "1", "2", "3", "4", "5", "6", "7", "8", "9"}}
  \cup {Ln("1", "1"), <<"\n">>, <<"a", "\n">>, <<"a", "1", "0", "\n">>,
        <<" ", "H", "8", " ", "\n">>}

\* Recorded games, each a sequence of lines that are legal moves in turn.
\* WipeGame ends with no white piece left, StuckGame with both colours on a
\* board that is not full and no legal move for either, TieGame and
\* WhiteGame with a full board.
WipeGame ==
  <<
    Ln("f","5"), Ln("f","6"), Ln("f","7"), Ln("f","4"), Ln("d","3"),
    Ln("e","3"), Ln("f","3"), Ln("g","7"), Ln("h","8")
  >>

StuckGame ==
  <<
    Ln("d","3"), Ln("e","3"), Ln("f","5"), Ln("e","6"), Ln("f","3"),
    Ln("g","5"), Ln("h","5"), Ln("g","4"), Ln("f","7"), Ln("g","6"),
    Ln("h","3"), Ln("e","8"), Ln("h","7"), Ln("g","7"), Ln("g","8")
  >>

TieGame ==
  <<
    Ln("d","3"), Ln("c","3"), Ln("c","4"), Ln("e","3"), Ln("b","2"),
    Ln("d","6"), Ln("e","2"), Ln("b","3"), Ln("b","4"), Ln("a","5"),
    Ln("f","3"), Ln("a","1"), Ln("e","6"), Ln("a","3"), Ln("c","6"),
    Ln("f","2"), Ln("c","2"), Ln("d","7"), Ln("d","8"), Ln("e","1"),
    Ln("f","1"), Ln("g","1"), Ln("a","4"), Ln("g","3"), Ln("a","2"),
    Ln("d","1"), Ln("a","6"), Ln("a","7"), Ln("h","3"), Ln("c","1"),
    Ln("b","1"), Ln("f","4"), Ln("h","1"), Ln("d","2"), Ln("g","2"),
    Ln("h","2"), Ln("g","4"), Ln("h","4"), Ln("c","5"), Ln("b","7"),
    Ln("b","5"), Ln("f","7"), Ln("g","8"), Ln("f","5"), Ln("a","8"),
    Ln("c","7"), Ln("b","6"), Ln("e","7"), Ln("h","5"), Ln("g","5"),
    Ln("g","6"), Ln("g","7"), Ln("e","8"), Ln("f","6"), Ln("h","7"),
    Ln("c","8"), Ln("b","8"), Ln("h","6"), Ln("h","8"), Ln("f","8")
  >>

WhiteGame ==
  <<
    Ln("f","5"), Ln("f","4"), Ln("f","3"), Ln("f","6"), Ln("d","3"),
    Ln("c","3"), Ln("d","6"), Ln("d","2"), Ln("g","7"), Ln("d","7"),
    Ln("c","7"), Ln("h","8"), Ln("d","8"), Ln("g","6"), Ln("c","4"),
    Ln("g","3"), Ln("h","2"), Ln("c","5"), Ln("c","6"), Ln("e","7"),
    Ln("g","5"), Ln("e","3"), Ln("b","5"), Ln("a","6"), Ln("h","6"),
    Ln("h","7"), Ln("b","3"), Ln("b","7"), Ln("e","1"), Ln("e","6"),
    Ln("g","8"), Ln("b","6"), Ln("a","4"), Ln("c","8"), Ln("b","8"),
    Ln("f","8"), Ln("g","4"), Ln("f","7"), Ln("e","8"), Ln("h","4"),
    Ln("b","4"), Ln("e","2"), Ln("h","3"), Ln("a","8"), Ln("d","1"),
    Ln("g","2"), Ln("f","1"), Ln("b","2"), Ln("a","5"), Ln("h","5"),
    Ln("b","1"), Ln("g","1"), Ln("c","2"), Ln("a","1"), Ln("a","2"),
    Ln("h","1"), Ln("a","7"), Ln("a","3"), Ln("f","2"), Ln("c","1")
  >>

\* A game that passes, after its 14th move, through the first example board
\* of the module docstring, where black plays g6; black wins it 50 to 14.
ExampleGame ==
  <<
    Ln("f","5"), Ln("d","6"), Ln("c","4"), Ln("f","3"), Ln("c","5"),
    Ln("f","4"), Ln("g","4"), Ln("b","5"), Ln("b","6"), Ln("d","3"),
    Ln("e","6"), Ln("c","6"), Ln("e","3"), Ln("f","6"), Ln("g","6"),
    Ln("h","5"), Ln("b","4"), Ln("d","7"), Ln("e","2"), Ln("b","3"),
    Ln("d","8"), Ln("a","5"), Ln("e","7"), Ln("c","2"), Ln("a","4"),
    Ln("d","1"), Ln("a","6"), Ln("h","7"), Ln("d","2"), Ln("c","8"),
    Ln("b","2"), Ln("f","2"), Ln("b","8"), Ln("c","7"), Ln("g","5"),
    Ln("e","8"), Ln("h","4"), Ln("a","7"), Ln("a","8"), Ln("a","3"),
    Ln("a","2"), Ln("g","7"), Ln("g","1"), Ln("g","3"), Ln("h","6"),
    Ln("b","1"), Ln("e","1"), Ln("g","2"), Ln("c","1"), Ln("b","7"),
    Ln("a","1"), Ln("f","7"), Ln("h","8"), Ln("h","3"), Ln("h","2"),
    Ln("f","8"), Ln("g","8"), Ln("c","3"), Ln("h","1"), Ln("f","1")
  >>

\* A game that reaches, with its 47th move, the second example board of the
\* module docstring, where white is to move and has no legal move.
PassGame ==
  <<
    Ln("f","5"), Ln("f","4"), Ln("d","3"), Ln("f","6"), Ln("g","4"),
    Ln("f","3"), Ln("e","2"), Ln("h","3"), Ln("h","5"), Ln("c","2"),
    Ln("e","6"), Ln("f","1"), Ln("d","2"), Ln("d","7"), Ln("f","2"),
    Ln("d","1"), Ln("h","4"), Ln("c","6"), Ln("e","7"), Ln("c","4"),
    Ln("g","7"), Ln("h","8"), Ln("f","7"), Ln("h","6"), Ln("c","5"),
    Ln("b","6"), Ln("h","7"), Ln("f","8"), Ln("g","5"), Ln("d","6"),
    Ln("c","3"), Ln("b","3"), Ln("c","8"), Ln("d","8"), Ln("g","8"),
    Ln("g","6"), Ln("b","5"), Ln("a","5"), Ln("c","7"), Ln("e","8"),
    Ln("g","3"), Ln("e","1"), Ln("e","3"), Ln("b","8"), Ln("h","2"),
    Ln("h","1"), Ln("a","8")
  >>

\* The recorded beginnings of the input stream; after them lines are typed.
Recorded ==
  { <<>>,
    <<Ln("d", "4"), <<"a", "\n">> >> \o SubSeq(WipeGame, 1, 7),
    SubSeq(StuckGame, 1, 13),
    SubSeq(TieGame, 1, 59),
    SubSeq(WhiteGame, 1, 58),
    SubSeq(ExampleGame, 1, 58),
    PassGame }

\* ------------------------------------------------------------ play_game
VARIABLES
  board,       \* board[row][col]: None, BLACK or WHITE
  turn,        \* the color to move
  end_status,  \* the flag of play_game
  b_cnt,       \* tracked number of black pieces
  w_cnt,       \* tracked number of white pieces
  t_cnt,       \* tracked number of pieces
  pc,          \* "loop": at the top of while True; "done": play_game left
  out,         \* what the last pass of the loop printed after its prompt
  input,       \* the recorded lines not yet read
  typed        \* accepted moves typed after the recorded lines

vars == <<board, turn, end_status, b_cnt, w_cnt, t_cnt, pc, out, input, typed>>

MSG_NONE == ""
MSG_PASS == "no valid move, switch user"
MSG_PARSE == "Invalid move: "
MSG_INVALID == "############ not vaild move ################"
MSG_END == "*********** game_end ***********"

\* A printed report: the message, its detail (the parse error or the line
\* of check_end_status) and the score line that follows it, if any.
Printed(msg, detail, score) == [msg |-> msg, detail |-> detail, score |-> score]

\* opening_board with the two colors exchanged.
opening_board_mut ==
  [r \in Index |-> [c \in Index |->
     IF <<r, c>> \in {<<3, 3>>, <<4, 4>>} THEN BLACK
     ELSE IF <<r, c>> \in {<<3, 4>>, <<4, 3>>} THEN WHITE
     ELSE None]]

opening_board ==
  [r \in Index |-> [c \in Index |->
     IF <<r, c>> \in {<<3, 3>>, <<4, 4>>} THEN WHITE
     ELSE IF <<r, c>> \in {<<3, 4>>, <<4, 3>>} THEN BLACK
     ELSE None]]

Init ==
  /\ board = opening_board
  /\ turn = BLACK
  /\ end_status = FALSE
  /\ b_cnt = 2
  /\ w_cnt = 2
  /\ t_cnt = 4
  /\ pc = "loop"
  /\ out = Printed(MSG_NONE, "", <<>>)
  /\ input \in Recorded
  /\ typed = 0

\* next_step_candidates at the top of the loop.
Candidates == next_steps(turn, board)

\* The loop is at the prompt: there is a candidate and a line is awaited.
Prompting == pc = "loop" /\ Candidates # <<>>

\* The lines next(input) can return, and the stream after the read.
Offered == IF input # <<>> THEN {Head(input)} ELSE Lines
Consumed == IF input # <<>> THEN Tail(input) ELSE input

\* Pass that is also taken when a single candidate is left.
Pass_mut ==
  /\ pc = "loop"
  /\ Len(Candidates) <= 1
  /\ turn' = switch_user(turn)
  /\ out' = Printed(MSG_PASS, "", <<>>)
  /\ UNCHANGED <<board, end_status, b_cnt, w_cnt, t_cnt, pc, input, typed>>

\* if not next_step_candidates: the turn is switched and the loop continues.
Pass ==
  /\ pc = "loop"
  /\ Candidates = <<>>
  /\ turn' = switch_user(turn)
  /\ out' = Printed(MSG_PASS, "", <<>>)
  /\ UNCHANGED <<board, end_status, b_cnt, w_cnt, t_cnt, pc, input, typed>>

\* The locals of play_game after a pass of the loop that changes nothing
\* and prints the report o.
unchanged_with(o) ==
  [board |-> board, turn |-> turn, end_status |-> end_status,
   b_cnt |-> b_cnt, w_cnt |-> w_cnt, t_cnt |-> t_cnt, pc |-> "loop", out |-> o]

\* on_parse_error that reports the line as a move that is not valid.
on_parse_error_mut(err) == unchanged_with(Printed(MSG_INVALID, "", <<>>))

\* except CoordinateParseError as e: the error is printed, the loop continues.
on_parse_error(err) == unchanged_with(Printed(MSG_PARSE, err, <<>>))

\* The move is taken; then the game ends or the turn is switched.
on_valid(move) ==
  LET r == take_action(move[1], move[2], turn, board,
                       b_cnt, w_cnt, t_cnt, move)
      e == check_end_status(turn, r.b_cnt, r.w_cnt, r.t_cnt)
  IN [board |-> r.board, b_cnt |-> r.b_cnt, w_cnt |-> r.w_cnt,
      t_cnt |-> r.t_cnt, end_status |-> e.end,
      pc |-> IF e.end THEN "done" ELSE "loop",
      turn |-> IF e.end THEN turn ELSE switch_user(turn),
      out |-> IF e.end
                THEN Printed(MSG_END, e.reason, <<r.b_cnt, r.w_cnt, r.t_cnt>>)
                ELSE Printed(MSG_NONE, "", <<>>)]

\* on_not_valid without its continue: the refused move is taken all the same.
on_not_valid_mut(move) == on_valid(move)

\* is_valid_move is false: the move is refused, the loop continues.
on_not_valid(move) == unchanged_with(Printed(MSG_INVALID, "", <<>>))

\* The body of the loop from the prompt on, for the line str that
\* next(input) returns: the locals of play_game when the pass is over.
loop_body(str) ==
  LET p == parse_coordinate(str) IN
  IF ~p.ok THEN on_parse_error(p.err)
  ELSE IF is_valid_move(p.move[1], p.move[2], turn, board)
    THEN on_valid(p.move)
    ELSE on_not_valid(p.move)

\* The pass of the loop that reads str.
Reads(str) ==
  LET n == loop_body(str) IN
  /\ board' = n.board
  /\ turn' = n.turn
  /\ end_status' = n.end_status
  /\ b_cnt' = n.b_cnt
  /\ w_cnt' = n.w_cnt
  /\ t_cnt' = n.t_cnt
  /\ pc' = n.pc
  /\ out' = n.out
  /\ input' = Consumed

\* A line that does not parse is read.
ParseError ==
  /\ Prompting
  /\ \E str \in Offered : ~parse_coordinate(str).ok /\ Reads(str)
  /\ typed' = typed

\* A coordinate that is not a valid move is read.
NotValid ==
  /\ Prompting
  /\ \E str \in Offered :
       /\ parse_coordinate(str).ok
       /\ ~is_valid_move(parse_coordinate(str).move[1],
                         parse_coordinate(str).move[2], turn, board)
       /\ Reads(str)
  /\ typed' = typed

\* A valid move is read and taken.
Move ==
  /\ Prompting
  /\ input # <<>> \/ typed < MaxMoves
  /\ \E str \in Offered :
       /\ parse_coordinate(str).ok
       /\ is_valid_move(parse_coordinate(str).move[1],
                        parse_coordinate(str).move[2], turn, board)
       /\ Reads(str)
  /\ typed' = IF input # <<>> THEN typed ELSE typed + 1

\* next(input) finds the stream at its end: play_game is left.
EndOfInput ==
  /\ Prompting
  /\ input = <<>>
  /\ pc' = "done"
  /\ out' = Printed(MSG_NONE, "", <<>>)
  /\ UNCHANGED <<board, turn, end_status, b_cnt, w_cnt, t_cnt, input, typed>>

Next == Pass \/ ParseError \/ NotValid \/ Move \/ EndOfInput

Spec == Init /\ [][Next]_vars

\* A pass waits for no input: the loop takes it whenever it is due.
FairSpec == Spec /\ WF_vars(Pass)

\* ------------------------------------------------ the rules of the game
\* Stated from the rules, not from the scans above.
opponent(color) == IF color = BLACK THEN WHITE ELSE BLACK

InGrid(p) == p[1] \in Index /\ p[2] \in Index

\* The cell k steps from (r, c) in the d-th direction.
Along(r, c, d, k) == <<r + k * directions[d][1], c + k * directions[d][2]>>

\* In direction d the k cells next to (r, c) are the opponent's and the
\* cell after them is the mover's.
Bookended(b, color, r, c, d, k) ==
  /\ \A j \in 1 .. k :
       /\ InGrid(Along(r, c, d, j))
       /\ b[Along(r, c, d, j)[1]][Along(r, c, d, j)[2]] = opponent(color)
  /\ InGrid(Along(r, c, d, k + 1))
  /\ b[Along(r, c, d, k + 1)[1]][Along(r, c, d, k + 1)[2]] = color

RunLengths == 1 .. (SIZE - 2)
Dirs == 1 .. Len(directions)

Legal(b, color, r, c) ==
  /\ b[r][c] = None
  /\ \E d \in Dirs, k \in RunLengths : Bookended(b, color, r, c, d, k)

NoLegal(b, color) == \A r \in Index, c \in Index : ~Legal(b, color, r, c)

\* The cells of all bookended runs around (r, c).
FlipSet(b, color, r, c) ==
  UNION {IF Bookended(b, color, r, c, d, k)
           THEN {Along(r, c, d, j) : j \in 1 .. k}
           ELSE {} : d \in Dirs, k \in RunLengths}

Cells == Index \X Index
CountOf(b, v) == Cardinality({p \in Cells : b[p[1]][p[2]] = v})
Occupied(b) == Cardinality({p \in Cells : b[p[1]][p[2]] # None})

\* The record n leaves the board, the counts and the turn as they are and
\* the loop at its top.
Untouched(n) ==
  /\ n.board = board
  /\ n.turn = turn
  /\ n.b_cnt = b_cnt
  /\ n.w_cnt = w_cnt
  /\ n.t_cnt = t_cnt
  /\ n.pc = "loop"

\* ---------------------------------------------------------------- claims

\* C1: whenever neither color has a legal move, or the board is full, the
\* game is over: the loop is never at its top (about to pass or to prompt)
\* in such a state.
C1_GameEndDetected ==
  pc = "loop" =>
    /\ ~(NoLegal(board, BLACK) /\ NoLegal(board, WHITE))
    /\ Occupied(board) # SIZE * SIZE

\* C2: the play loop does not run forever: every execution in which the
\* loop does not wait at a prompt for ever (a legal move is supplied whenever
\* input is awaited) eventually leaves the loop, so there is no unbounded
\* sequence of passes.
C2_PlayLoopTerminates == ([]<>~Prompting) => <>(pc = "done")

\* C3: is_valid_move is true exactly for an Empty target with, in at least
\* one direction, a run of one or more opponent cells followed on the board
\* by a cell of the mover.
C3_LegalityIffBookended ==
  \A color \in Color, r \in Index, c \in Index :
    is_valid_move(r, c, color, board) <=> Legal(board, color, r, c)

\* A board after some moves where the mover has a legal cell, and an empty
\* cell next to an opponent piece that is not legal (its runs end at an
\* Empty cell or at the edge).
C3_Witness ==
  /\ t_cnt > 4
  /\ \E r \in Index, c \in Index : is_valid_move(r, c, turn, board)
  /\ \E r \in Index, c \in Index, d \in Dirs :
       /\ board[r][c] = None
       /\ InGrid(Along(r, c, d, 1))
       /\ board[Along(r, c, d, 1)[1]][Along(r, c, d, 1)[2]] = opponent(turn)
       /\ ~is_valid_move(r, c, turn, board)

\* C4: for every legal move take_action gives the target and exactly the
\* cells of the bookended runs of the pre-move board to the mover, and
\* leaves every other cell as it was.
C4_FlipsExactlyTheRuns ==
  \A color \in Color, r \in Index, c \in Index :
    is_valid_move(r, c, color, board) =>
      LET after == take_action(r, c, color, board,
                               b_cnt, w_cnt, t_cnt, <<r, c>>).board
          runs == FlipSet(board, color, r, c)
      IN /\ after[r][c] = color
         /\ after[r][c] # None
         /\ \A p \in Cells :
              after[p[1]][p[2]] =
                IF p = <<r, c>> \/ p \in runs
                  THEN color ELSE board[p[1]][p[2]]

\* A board where a legal move of the mover flips runs in two directions,
\* one of them longer than one cell.
C4_Witness ==
  \E r \in Index, c \in Index :
    /\ is_valid_move(r, c, turn, board)
    /\ \E d1 \in Dirs, d2 \in Dirs, k1 \in RunLengths, k2 \in RunLengths :
         /\ d1 # d2
         /\ k1 >= 2
         /\ Bookended(board, turn, r, c, d1, k1)
         /\ Bookended(board, turn, r, c, d2, k2)

\* C5: when the color to move has no legal move, is_valid_move refuses every
\* coordinate for it and no step of the loop changes the board or a count.
C5_NoMoveWithoutLegalMove ==
  (pc = "loop" /\ NoLegal(board, turn)) =>
    /\ \A r \in Index, c \in Index : ~is_valid_move(r, c, turn, board)
    /\ ~ENABLED (Next /\ ~UNCHANGED <<board, b_cnt, w_cnt, t_cnt>>)

\* The loop is at its top with cells still empty and no legal move for the
\* color to move.
C5_Witness ==
  /\ pc = "loop"
  /\ NoLegal(board, turn)
  /\ Occupied(board) < SIZE * SIZE
  /\ b_cnt > 0
  /\ w_cnt > 0

\* C6: a line that parses to a coordinate that is not legal for the mover is
\* refused: reading it leaves the board, the counts and the turn as they
\* were, reports the illegal move, and the loop prompts the same color.
C6_IllegalMoveRejected ==
  Prompting =>
    \A str \in Offered :
      (/\ parse_coordinate(str).ok
       /\ ~Legal(board, turn, parse_coordinate(str).move[1],
                 parse_coordinate(str).move[2]))
      => /\ Untouched(loop_body(str))
         /\ loop_body(str).out.msg = MSG_INVALID

\* A refusal has been reported on a board where moves have been applied.
C6_Witness == out.msg = MSG_INVALID /\ pc = "loop" /\ t_cnt > 4

\* The line names a column and a row, and one of them is outside the grid.
OutOfGrid(str) ==
  LET s == strip(lower(str)) IN
  /\ Len(s) = 2
  /\ \/ s[1] \notin {"a", "b", "c", "d", "e", "f", "g", "h"}
     \/ s[2] \notin {"1", "2", "3", "4", "5", "6", "7", "8"}

\* C7: a coordinate outside the grid is reported as out of range (row or
\* column), never as an illegal move, and reading it leaves the board, the
\* counts and the turn as they were; the loop prompts the same color.
C7_OutOfRangeReported ==
  Prompting =>
    \A str \in Offered :
      OutOfGrid(str) =>
        /\ Untouched(loop_body(str))
        /\ loop_body(str).out.msg = MSG_PARSE
        /\ loop_body(str).out.detail \in {ERR_ROW, ERR_COL}

\* An out-of-range report has been printed after some moves.
C7_Witness ==
  /\ out.msg = MSG_PARSE
  /\ out.detail \in {ERR_ROW, ERR_COL}
  /\ pc = "loop"
  /\ t_cnt > 4

\* C8: for every legal move take_action returns the mover's count raised by
\* one plus the number of flipped cells, the opponent's count lowered by the
\* number of flipped cells and the occupied count raised by one; the number
\* of occupied cells of the board grows by one.
C8_CountsFollowFlips ==
  \A color \in Color, r \in Index, c \in Index :
    is_valid_move(r, c, color, board) =>
      LET res == take_action(r, c, color, board, b_cnt, w_cnt, t_cnt, <<r, c>>)
          n == Cardinality(FlipSet(board, color, r, c))
      IN /\ res.b_cnt = IF color = BLACK THEN b_cnt + 1 + n ELSE b_cnt - n
         /\ res.w_cnt = IF color = WHITE THEN w_cnt + 1 + n ELSE w_cnt - n
         /\ res.t_cnt = t_cnt + 1
         /\ Occupied(res.board) = Occupied(board) + 1

\* A board where a legal move of the mover flips at least three cells.
C8_Witness ==
  \E r \in Index, c \in Index :
    /\ is_valid_move(r, c, turn, board)
    /\ Cardinality(FlipSet(board, turn, r, c)) >= 3

\* C9: the tracked counts agree with the board: b_cnt black cells, w_cnt
\* white cells, t_cnt = b_cnt + w_cnt occupied cells, and the three kinds of
\* cell add up to the SIZE * SIZE cells of the grid.
C9_CountsMatchBoard ==
  /\ b_cnt = CountOf(board, BLACK)
  /\ w_cnt = CountOf(board, WHITE)
  /\ t_cnt = b_cnt + w_cnt
  /\ t_cnt = Occupied(board)
  /\ b_cnt + w_cnt + CountOf(board, None) = SIZE * SIZE

\* A pass has just been taken in a game where moves have flipped pieces.
C9_Witness == out.msg = MSG_PASS /\ t_cnt > 8 /\ b_cnt # w_cnt

\* The result of a game with these counts.
Result(b, w) == IF b > w THEN "Black" ELSE IF w > b THEN "White" ELSE "Tie"

\* C10: when the game ends the report names the result: Black when black has
\* more pieces, White when white has more, Tie when the counts are equal,
\* together with the final counts.
C10_ResultReported ==
  out.msg = MSG_END =>
    /\ out.score = <<b_cnt, w_cnt, t_cnt>>
    /\ Result(b_cnt, w_cnt) \in {out.msg, out.detail}

\* The place of a cell in the row-major order of the grid.
RowMajor(p) == p[1] * SIZE + p[2]

\* C11: for either color next_steps returns exactly the cells for which
\* is_valid_move is true, in row-major order and so without duplicates, and
\* every returned cell is Empty.
C11_CandidatesAreTheValidCells ==
  \A color \in Color :
    LET cand == next_steps(color, board) IN
    /\ {cand[i] : i \in 1 .. Len(cand)}
         = {p \in Cells : is_valid_move(p[1], p[2], color, board)}
    /\ \A i \in 1 .. (Len(cand) - 1) : RowMajor(cand[i]) < RowMajor(cand[i + 1])
    /\ \A i \in 1 .. Len(cand) : board[cand[i][1]][cand[i][2]] = None

\* A board in mid-game where the mover has candidates in at least three rows
\* and three columns.
C11_Witness ==
  /\ t_cnt > 8
  /\ Cardinality({Candidates[i][1] : i \in 1 .. Len(Candidates)}) >= 3
  /\ Cardinality({Candidates[i][2] : i \in 1 .. Len(Candidates)}) >= 3

\* The step gives the turn to the opponent, reads no line and leaves the
\* board, the counts and the loop as they are.
PassStep ==
  /\ turn' = opponent(turn)
  /\ board' = board
  /\ input' = input
  /\ typed' = typed
  /\ b_cnt' = b_cnt
  /\ w_cnt' = w_cnt
  /\ t_cnt' = t_cnt
  /\ pc' = pc

C13_TurnAlternates ==
  /\ turn = BLACK
  /\ [][/\ (board' # board /\ pc' = "loop") => turn' = opponent(turn)
        /\ out'.msg = MSG_PASS => turn' = opponent(turn)
        /\ (board' = board /\ out'.msg # MSG_PASS) => turn' = turn]_vars

\* White is to move after a pass of black, late in a game.
C13_Witness == turn = WHITE /\ out.msg = MSG_PASS /\ t_cnt > 32

\* d3, c4, f5 and e6.
OpeningMoves == {<<2, 3>>, <<3, 2>>, <<4, 5>>, <<5, 4>>}

\* C14: the game starts with black to move on the standard opening board
\* (black at (3,4) and (4,3), white at (3,3) and (4,4), counts 2, 2 and 4),
\* black's legal moves there are exactly (2,3), (3,2), (4,5) and (5,4), and
\* the first piece placed is a black one on one of these four cells.
C14_OpeningPosition ==
  /\ \A p \in Cells :
       board[p[1]][p[2]] =
         IF p \in {<<3, 4>>, <<4, 3>>} THEN BLACK
         ELSE IF p \in {<<3, 3>>, <<4, 4>>} THEN WHITE
         ELSE None
  /\ turn = BLACK
  /\ pc = "loop"
  /\ <<b_cnt, w_cnt, t_cnt>> = <<2, 2, 4>>
  /\ {Candidates[i] : i \in 1 .. Len(Candidates)} = OpeningMoves
  /\ {p \in Cells : is_valid_move(p[1], p[2], BLACK, board)} = OpeningMoves
  /\ [][(t_cnt = 4 /\ board' # board) =>
          \E p \in OpeningMoves : board'[p[1]][p[2]] = BLACK /\ t_cnt' = 5]_vars

\* Black has made the first move, on d3.
C14_Witness == t_cnt = 5 /\ board[2][3] = BLACK /\ turn = WHITE

\* The first example board of the module docstring (rows 3 to 6).
MidGameWhite ==
  {<<2, 3>>, <<2, 5>>, <<3, 2>>, <<3, 5>>, <<4, 1>>, <<4, 3>>, <<4, 5>>,
   <<5, 2>>, <<5, 3>>, <<5, 4>>, <<5, 5>>}
MidGameBlack ==
  {<<2, 4>>, <<3, 3>>, <<3, 4>>, <<3, 6>>, <<4, 2>>, <<4, 4>>, <<5, 1>>}
MidGameBoard ==
  [r \in Index |-> [c \in Index |->
     IF <<r, c>> \in MidGameWhite THEN WHITE
     ELSE IF <<r, c>> \in MidGameBlack THEN BLACK
     ELSE None]]

\* c6, d6, e6, f6 and f5.
MidGameFlipped == {<<5, 2>>, <<5, 3>>, <<5, 4>>, <<5, 5>>, <<4, 5>>}

\* The board after black's g6: the placed piece and the five flipped ones
\* are black, every other cell is as before.
MidGameAfter ==
  [r \in Index |-> [c \in Index |->
     IF <<r, c>> = <<5, 6>> \/ <<r, c>> \in MidGameFlipped THEN BLACK
     ELSE MidGameBoard[r][c]]]

\* C15: on the docstring's mid-game board g6 (row 5, col 6) is legal for
\* black and take_action for it returns the board in which exactly c6, d6,
\* e6, f5 and f6 have turned black besides the new piece; the game reaches
\* that board with black to move, and the play loop, reading g6 there, goes
\* to the board with the five flips.
C15_ExampleMoveFlipsFive ==
  /\ [](/\ is_valid_move(5, 6, BLACK, MidGameBoard)
        /\ take_action(5, 6, BLACK, MidGameBoard, 7, 11, 18,
                       <<5, 6>>).board = MidGameAfter)
  /\ [](board = MidGameBoard =>
          /\ turn = BLACK
          /\ <<b_cnt, w_cnt, t_cnt>> = <<7, 11, 18>>
          /\ loop_body(Ln("g", "6")).board = MidGameAfter)
  /\ [][(board = MidGameBoard /\ board'[5][6] # None)
          => board' = MidGameAfter]_vars

\* Black has played g6 on the docstring's board.
C15_Witness == board = MidGameAfter /\ turn = WHITE /\ <<b_cnt, w_cnt>> = <<13, 6>>

\* The second example board of the module docstring (rows 1 to 8).
ForcedPassWhite ==
  {<<0, 3>>, <<0, 4>>, <<0, 5>>, <<0, 7>>, <<1, 2>>, <<1, 3>>, <<1, 4>>,
   <<1, 5>>, <<1, 7>>, <<2, 1>>, <<2, 2>>, <<2, 3>>, <<2, 5>>, <<2, 6>>,
   <<2, 7>>, <<3, 2>>, <<3, 5>>, <<3, 7>>, <<4, 0>>, <<4, 1>>, <<4, 2>>,
   <<4, 3>>, <<4, 4>>, <<4, 5>>, <<4, 7>>, <<5, 1>>, <<5, 2>>, <<5, 3>>,
   <<5, 4>>, <<5, 5>>, <<5, 6>>, <<5, 7>>, <<6, 2>>, <<6, 3>>, <<6, 4>>,
   <<6, 5>>, <<6, 6>>, <<6, 7>>, <<7, 7>>}
ForcedPassBlack ==
  {<<2, 4>>, <<3, 3>>, <<3, 4>>, <<3, 6>>, <<4, 6>>, <<7, 0>>, <<7, 1>>,
   <<7, 2>>, <<7, 3>>, <<7, 4>>, <<7, 5>>, <<7, 6>>}
ForcedPassBoard ==
  [r \in Index |-> [c \in Index |->
     IF <<r, c>> \in ForcedPassWhite THEN WHITE
     ELSE IF <<r, c>> \in ForcedPassBlack THEN BLACK
     ELSE None]]

\* The loop is at the docstring's board with white to move.
AtForcedPass == board = ForcedPassBoard /\ turn = WHITE /\ pc = "loop"

\* C16: next_steps finds no move for white on the docstring's second board
\* (and black has one); when the play loop is at that board with white to
\* move it asks for no input, and its step gives the turn to black, prints
\* the pass and leaves the board, the counts and the input as they are;
\* the step is taken.
C16_ForcedPass ==
  /\ next_steps(WHITE, ForcedPassBoard) = <<>>
  /\ NoLegal(ForcedPassBoard, WHITE)
  /\ next_steps(BLACK, ForcedPassBoard) # <<>>
  /\ [](AtForcedPass => (Candidates = <<>> /\ ~Prompting))
  /\ [][AtForcedPass =>
          /\ turn' = BLACK
          /\ board' = board
          /\ input' = input
          /\ typed' = typed
          /\ <<b_cnt', w_cnt', t_cnt'>> = <<b_cnt, w_cnt, t_cnt>>
          /\ pc' = "loop"
          /\ out'.msg = MSG_PASS]_vars
  /\ AtForcedPass ~> (board = ForcedPassBoard /\ turn = BLACK)

\* White has been passed over on the docstring's board: black is to move.
C16_Witness ==
  /\ board = ForcedPassBoard
  /\ turn = BLACK
  /\ out.msg = MSG_PASS
  /\ <<b_cnt, w_cnt, t_cnt>> = <<12, 39, 51>>

\* The mover's and the opponent's count among the counts b and w.
CountFor(color, b, w) == IF color = BLACK THEN b ELSE w

\* C17: whenever is_valid_move accepts a cell, the scan of take_action finds
\* the same directions valid as the scan of is_valid_move, at least one of
\* them, so take_action raises the mover's count by at least 2 and lowers
\* the opponent's by at least 1; every move the play loop applies changes
\* the counts in that way.
C17_EveryMoveFlips ==
  /\ [](\A color \in Color, r \in Index, c \in Index :
          is_valid_move(r, c, color, board) =>
            LET placed == place_piece(color, board, b_cnt, w_cnt, t_cnt,
                                      <<r, c>>).board
                res == take_action(r, c, color, board, b_cnt, w_cnt, t_cnt,
                                   <<r, c>>)
                ahead(d) == action_scan(r + directions[d][1],
                                        c + directions[d][2],
                                        directions[d][1], directions[d][2],
                                        0, color, placed)
            IN /\ \A d \in 1 .. Len(directions) :
                    ahead(d).valid
                      = valid_scan(r + directions[d][1], c + directions[d][2],
                                   directions[d][1], directions[d][2],
                                   0, color, board)
               /\ \E d \in 1 .. Len(directions) :
                    ahead(d).valid /\ ahead(d).cnt >= 1
               /\ CountFor(color, res.b_cnt, res.w_cnt)
                    >= CountFor(color, b_cnt, w_cnt) + 2
               /\ CountFor(opponent(color), res.b_cnt, res.w_cnt)
                    <= CountFor(opponent(color), b_cnt, w_cnt) - 1)
  /\ [][board' # board =>
          /\ CountFor(turn, b_cnt', w_cnt') >= CountFor(turn, b_cnt, w_cnt) + 2
          /\ CountFor(opponent(turn), b_cnt', w_cnt')
               <= CountFor(opponent(turn), b_cnt, w_cnt) - 1
          /\ \E p \in Cells : board[p[1]][p[2]] = opponent(turn)
                              /\ board'[p[1]][p[2]] = turn]_vars

\* Moves have been applied, and the mover has a valid move that flips one
\* piece only, in one direction: the least change of the counts.
C17_Witness ==
  /\ t_cnt > 5
  /\ pc = "loop"
  /\ out.msg = MSG_NONE
  /\ \E r \in Index, c \in Index :
       /\ is_valid_move(r, c, turn, board)
       /\ Cardinality(FlipSet(board, turn, r, c)) = 1

\* C18: whenever check_end_status returns True for the counts of a state
\* the game reaches, and whenever the play loop has declared the game over,
\* neither black nor white has a legal move on the board.
C18_EndIsSound ==
  (\/ check_end_status(turn, b_cnt, w_cnt, t_cnt).end
   \/ end_status
   \/ out.msg = MSG_END)
    => /\ NoLegal(board, BLACK)
       /\ NoLegal(board, WHITE)
       /\ \A color \in Color : next_steps(color, board) = <<>>

\* The game has been declared over with empty cells left on the board.
C18_Witness ==
  /\ end_status
  /\ pc = "done"
  /\ out.detail = REASON_ONE_LOSE
  /\ t_cnt < SIZE * SIZE
  /\ CountOf(board, None) > 0

\* The number of moves a game can hold: the cells the opening leaves empty.
MostMoves == SIZE * SIZE - 4

\* C19: the game starts with 4 occupied cells; no step of the play loop
\* empties an occupied cell; a step that changes the board is an applied
\* move and occupies exactly one more cell, every other step (a rejected
\* input, a pass, the end of the input) leaves the occupied cells as they
\* are; so the occupied count is 4 plus the number of applied moves, it
\* never exceeds 64, and no move is applied on a full board.
C19_OccupancyMonotone ==
  /\ Occupied(board) = 4
  /\ t_cnt = 4
  /\ [](/\ Occupied(board) <= SIZE * SIZE
        /\ t_cnt - 4 \in 0 .. MostMoves
        /\ Occupied(board) = SIZE * SIZE =>
             \A color \in Color, p \in Cells :
               ~is_valid_move(p[1], p[2], color, board))
  /\ [][/\ \A p \in Cells : board[p[1]][p[2]] # None
                              => board'[p[1]][p[2]] # None
        /\ board' # board =>
             /\ Occupied(board') = Occupied(board) + 1
             /\ t_cnt' = t_cnt + 1
             /\ \E p \in Cells : /\ board[p[1]][p[2]] = None
                                 /\ board'[p[1]][p[2]] = turn
        /\ board' = board => t_cnt' = t_cnt]_vars

\* The sixtieth move has been applied: the board is full.
C19_Witness ==
  /\ Occupied(board) = SIZE * SIZE
  /\ t_cnt - 4 = MostMoves
  /\ out.detail = REASON_FULL

====
